---- MODULE Spec2Model ----
(***************************************************************************)
(* The in-memory engineer repository and its service layer                 *)
(* (src/fastapi_oop_example.py).                                           *)
(*                                                                         *)
(* Python objects are references: the repository's dict holds references   *)
(* to Engineer objects, and the service mutates the object it fetched.     *)
(* The model keeps a heap of Engineer objects (a sequence, the index is    *)
(* the reference) and the dict as a sequence of key/reference entries in   *)
(* insertion order, as a Python dict keeps them.                           *)
(***************************************************************************)
EXTENDS Integers, Sequences, FiniteSets, TLC

VARIABLES
    heap,        \* every Engineer object constructed so far; index = reference
    engineers,   \* InMemoryEngineerRepository._engineers, in insertion order
    next_id,     \* InMemoryEngineerRepository._next_id
    issued,      \* history: the ids handed out by successful creates, in order
    last,        \* the last call made: operation, arguments, outcome
    ops,         \* number of calls made so far
    tasks,       \* the service coroutines the event loop holds, by arrival
    running      \* the task the event loop is running (0: none)

vars == <<ops, heap, engineers, next_id, issued, last, tasks, running>>

\* ------------------------------------------------------------------ bounds
\* Number of calls in a run.
MaxOps == 3

\* Number of service coroutines in a run of the event loop.
MaxTasks == 2

\* ------------------------------------------------------------ Python values
\* Python's None where a string or an object reference is expected.
None == "None"
NoRef == 0

\* Outcomes of a call: normal return, or the exception raised.
OK == "ok"
EngineerNotFoundError == "EngineerNotFoundError"
EngineerAlreadyExistsError == "EngineerAlreadyExistsError"

\* class CertificationLevel, in declaration order.
CertificationLevel == <<"junior", "mid", "senior", "expert">>

\* Optional argument: <<>> when omitted (None), <<v>> when given.
Some(v) == <<v>>

\* ------------------------------------------------------------ input sets
Emails == {"a@x.com", "b@x.com"}
CertCodes == {"AZ-104", "AWS-SAA"}
\* ids a caller asks for
AskedIds == {1, 2}

\* ------------------------------------------------------------------ Engineer
\* Engineer.__init__(**a); now is datetime.now(). The optional arguments
\* certifications and created_at are <<>> when omitted.
Engineer_init(a, now) ==
    [id |-> a.id,
     name |-> a.name,
     email |-> a.email,
     specialty |-> a.specialty,
     hourly_rate |-> a.hourly_rate,
     certification_level |-> a.certification_level,
     certifications |->
        IF a.certifications = <<>> \/ a.certifications[1] = <<>>
        THEN <<>> ELSE a.certifications[1],
     is_available |-> a.is_available,
     created_at |-> IF a.created_at = <<>> THEN now ELSE a.created_at[1]]

Contains(seq, x) == \E i \in 1..Len(seq) : seq[i] = x

Count(seq, x) == Cardinality({i \in 1..Len(seq) : seq[i] = x})

\* Engineer.add_certification
Engineer_add_certification(self, cert_code) ==
    IF ~Contains(self.certifications, cert_code)
    THEN [self EXCEPT !.certifications = Append(@, cert_code)]
    ELSE self

\* Engineer.calculate_monthly_revenue's default hours_per_month
HoursPerMonth == 160

\* Engineer.calculate_monthly_revenue
calculate_monthly_revenue(self, hours_per_month) == self.hourly_rate * hours_per_month

\* class CloudPlatform, in declaration order.
CloudPlatform == <<"azure", "aws", "gcp">>

\* The characters of the strings that startswith() looks into.
Chars(str) ==
    CASE str = "AZ-104" -> <<"A", "Z", "-", "1", "0", "4">>
      [] str = "AWS-SAA" -> <<"A", "W", "S", "-", "S", "A", "A">>
      [] str = "AZ-700" -> <<"A", "Z", "-", "7", "0", "0">>
      [] str = "AZ-305" -> <<"A", "Z", "-", "3", "0", "5">>
      [] str = "GCP-PCA" -> <<"G", "C", "P", "-", "P", "C", "A">>
      [] str = "CKAD" -> <<"C", "K", "A", "D">>
      [] str = "CKA" -> <<"C", "K", "A">>
      [] str = "AZ-" -> <<"A", "Z", "-">>
      [] str = "AWS-" -> <<"A", "W", "S", "-">>
      [] str = "GCP-" -> <<"G", "C", "P", "-">>
      [] str = "" -> <<>>

\* str.startswith(prefix)
startswith(str, prefix) ==
    LET c == Chars(str)
        q == Chars(prefix)
    IN  Len(q) <= Len(c) /\ SubSeq(c, 1, Len(q)) = q

\* platform_prefixes.get(platform, "") in Engineer.can_work_on_platform
platform_prefixes(platform) ==
    CASE platform = "azure" -> "AZ-"
      [] platform = "aws" -> "AWS-"
      [] platform = "gcp" -> "GCP-"
      [] OTHER -> ""

\* Engineer.can_work_on_platform
can_work_on_platform(self, platform) ==
    LET prefix == platform_prefixes(platform)
    IN  \E i \in 1..Len(self.certifications) :
            startswith(self.certifications[i], prefix)

\* sum(...) over a list of numbers
RECURSIVE Sum(_)
Sum(seq) == IF seq = <<>> THEN 0 ELSE Head(seq) + Sum(Tail(seq))

\* ------------------------------------------------------------------ dict
\* d.get(k): the reference stored under k, or None
DictGet(d, k) ==
    IF \E i \in 1..Len(d) : d[i].key = k
    THEN d[CHOOSE i \in 1..Len(d) : d[i].key = k].ref
    ELSE NoRef

DictHas(d, k) == \E i \in 1..Len(d) : d[i].key = k

\* d[k] = r: an existing key keeps its position, a new key goes last
DictSet(d, k, r) ==
    IF DictHas(d, k)
    THEN [i \in 1..Len(d) |-> IF d[i].key = k THEN [key |-> k, ref |-> r] ELSE d[i]]
    ELSE Append(d, [key |-> k, ref |-> r])

\* del d[k]
DictDel(d, k) == SelectSeq(d, LAMBDA e : e.key # k)

\* list(d.values()): references in insertion order
DictValues(d) == [i \in 1..Len(d) |-> d[i].ref]

\* ------------------------------------------------- InMemoryEngineerRepository
\* A program state is [heap, engineers, next_id]; a call yields the state it
\* leaves, the exception raised (exc, OK when none), the object returned
\* (ret, a reference or NoRef) and the boolean returned (flag).
Result(heap_, engineers_, next_id_, exc, ret, flag) ==
    [heap |-> heap_, engineers |-> engineers_, next_id |-> next_id_,
     exc |-> exc, ret |-> ret, flag |-> flag]

Return(s, ret) == Result(s.heap, s.engineers, s.next_id, OK, ret, FALSE)

ReturnBool(s, flag) == Result(s.heap, s.engineers, s.next_id, OK, NoRef, flag)

Raise(s, exc) == Result(s.heap, s.engineers, s.next_id, exc, NoRef, FALSE)

\* get_by_id that falls back to the first stored record
get_by_id_default(s, engineer_id) ==
    IF DictHas(s.engineers, engineer_id) THEN DictGet(s.engineers, engineer_id)
    ELSE IF s.engineers = <<>> THEN NoRef
    ELSE s.engineers[1].ref

\* InMemoryEngineerRepository.get_by_id
get_by_id(s, engineer_id) == DictGet(s.engineers, engineer_id)

\* InMemoryEngineerRepository.get_by_email: the first match in dict order
get_by_email(s, email) ==
    LET vals == DictValues(s.engineers)
        hits == {i \in 1..Len(vals) : s.heap[vals[i]].email = email}
    IN  IF hits = {} THEN NoRef
        ELSE vals[CHOOSE i \in hits : \A j \in hits : i <= j]

\* InMemoryEngineerRepository.get_all
get_all(s) == DictValues(s.engineers)

\* find_available that returns every stored record
find_available_all(s) == get_all(s)

\* InMemoryEngineerRepository.find_available
find_available(s) ==
    SelectSeq(DictValues(s.engineers), LAMBDA r : s.heap[r].is_available = TRUE)

\* create without the lookup of the email
create_unchecked(s, engineer) ==
    Result([s.heap EXCEPT ![engineer].id = s.next_id],
           DictSet(s.engineers, s.next_id, engineer),
           s.next_id + 1,
           OK, engineer, FALSE)

\* create that refuses an email that any other Engineer object ever had,
\* deleted records included
create_ever(s, engineer) ==
    IF \/ get_by_email(s, s.heap[engineer].email) # NoRef
       \/ \E r \in 1..Len(s.heap) :
             r # engineer /\ s.heap[r].email = s.heap[engineer].email
    THEN Raise(s, EngineerAlreadyExistsError)
    ELSE Result([s.heap EXCEPT ![engineer].id = s.next_id],
                DictSet(s.engineers, s.next_id, engineer),
                s.next_id + 1,
                OK, engineer, FALSE)

\* create that takes len(self._engineers) + 1 as the id, and keeps a counter
create_len_id(s, engineer) ==
    LET existing == get_by_email(s, s.heap[engineer].email)
        new_id == Len(s.engineers) + 1
    IN  IF existing # NoRef
        THEN Raise(s, EngineerAlreadyExistsError)
        ELSE Result([s.heap EXCEPT ![engineer].id = new_id],
                    DictSet(s.engineers, new_id, engineer),
                    s.next_id + 1,
                    OK, engineer, FALSE)

\* create that keeps a caller-supplied id when there is one
create_keep_id(s, engineer) ==
    LET existing == get_by_email(s, s.heap[engineer].email)
        new_id == IF s.heap[engineer].id # 0 THEN s.heap[engineer].id ELSE s.next_id
    IN  IF existing # NoRef
        THEN Raise(s, EngineerAlreadyExistsError)
        ELSE Result([s.heap EXCEPT ![engineer].id = new_id],
                    DictSet(s.engineers, new_id, engineer),
                    s.next_id + 1,
                    OK, engineer, FALSE)

\* create that takes the id before it checks the email
create_count_first(s, engineer) ==
    LET existing == get_by_email(s, s.heap[engineer].email)
    IN  IF existing # NoRef
        THEN Result(s.heap, s.engineers, s.next_id + 1,
                    EngineerAlreadyExistsError, NoRef, FALSE)
        ELSE Result([s.heap EXCEPT ![engineer].id = s.next_id],
                    DictSet(s.engineers, s.next_id, engineer),
                    s.next_id + 1,
                    OK, engineer, FALSE)

\* InMemoryEngineerRepository.create; engineer is a reference into the heap
create(s, engineer) ==
    LET existing == get_by_email(s, s.heap[engineer].email)
    IN  IF existing # NoRef
        THEN Raise(s, EngineerAlreadyExistsError)
        ELSE Result([s.heap EXCEPT ![engineer].id = s.next_id],
                    DictSet(s.engineers, s.next_id, engineer),
                    s.next_id + 1,
                    OK, engineer, FALSE)

\* update that stores the record also when its id is not a key (an upsert)
update_upsert(s, engineer) ==
    Result(s.heap,
           DictSet(s.engineers, s.heap[engineer].id, engineer),
           s.next_id,
           OK, engineer, FALSE)

\* update that removes the key and inserts it again (the entry moves last)
update_reinsert(s, engineer) ==
    IF ~DictHas(s.engineers, s.heap[engineer].id)
    THEN Raise(s, EngineerNotFoundError)
    ELSE Result(s.heap,
                DictSet(DictDel(s.engineers, s.heap[engineer].id),
                        s.heap[engineer].id, engineer),
                s.next_id,
                OK, engineer, FALSE)

\* InMemoryEngineerRepository.update
update(s, engineer) ==
    IF ~DictHas(s.engineers, s.heap[engineer].id)
    THEN Raise(s, EngineerNotFoundError)
    ELSE Result(s.heap,
                DictSet(s.engineers, s.heap[engineer].id, engineer),
                s.next_id,
                OK, engineer, FALSE)

\* delete that raises when the id is not a key
delete_strict(s, engineer_id) ==
    IF DictHas(s.engineers, engineer_id)
    THEN Result(s.heap, DictDel(s.engineers, engineer_id), s.next_id,
                OK, NoRef, TRUE)
    ELSE Raise(s, EngineerNotFoundError)

\* delete that gives the id back when it was the one handed out last
delete_rewind(s, engineer_id) ==
    IF DictHas(s.engineers, engineer_id)
    THEN Result(s.heap, DictDel(s.engineers, engineer_id),
                IF engineer_id = s.next_id - 1 THEN engineer_id ELSE s.next_id,
                OK, NoRef, TRUE)
    ELSE ReturnBool(s, FALSE)

\* delete that removes the entry inserted last (dict.popitem())
delete_popitem(s, engineer_id) ==
    IF DictHas(s.engineers, engineer_id)
    THEN Result(s.heap, SubSeq(s.engineers, 1, Len(s.engineers) - 1), s.next_id,
                OK, NoRef, TRUE)
    ELSE ReturnBool(s, FALSE)

\* InMemoryEngineerRepository.delete
delete(s, engineer_id) ==
    IF DictHas(s.engineers, engineer_id)
    THEN Result(s.heap, DictDel(s.engineers, engineer_id), s.next_id,
                OK, NoRef, TRUE)
    ELSE ReturnBool(s, FALSE)

\* Engineer(...) evaluated by a caller: a new object on the heap
\* (a = the constructor's arguments); the result's ret is the new reference.
\* datetime.now() is a logical clock: the number of the construction.
New(s, a) ==
    Result(Append(s.heap, Engineer_init(a, Len(s.heap) + 1)),
           s.engineers, s.next_id, OK, Len(s.heap) + 1, FALSE)

\* ------------------------------------------------------------ EngineerService
\* EngineerService.create_engineer; engineer_data is a validated EngineerCreate
create_engineer(s, engineer_data) ==
    LET n == New(s, [id |-> 0,
                     name |-> engineer_data.name,
                     email |-> engineer_data.email,
                     specialty |-> engineer_data.specialty,
                     hourly_rate |-> engineer_data.hourly_rate,
                     certification_level |-> engineer_data.certification_level,
                     certifications |-> <<>>,
                     is_available |-> TRUE,
                     created_at |-> <<>>])
    IN  create(n, n.ret)

\* EngineerService.get_engineer
get_engineer(s, engineer_id) ==
    LET engineer == get_by_id(s, engineer_id)
    IN  IF engineer = NoRef
        THEN Raise(s, EngineerNotFoundError)
        ELSE Return(s, engineer)

\* an update that builds the record anew from the merged fields, as
\* create_engineer builds one: no certifications, available
SetAttrs_rebuild(obj, update_dict) ==
    [f \in DOMAIN obj |->
        IF f \in DOMAIN update_dict THEN update_dict[f]
        ELSE IF f = "certifications" THEN <<>>
        ELSE IF f = "is_available" THEN TRUE
        ELSE obj[f]]

\* an update that also stamps the record with the time of the change
SetAttrs_stamp(obj, update_dict) ==
    [f \in DOMAIN obj |->
        IF f \in DOMAIN update_dict THEN update_dict[f]
        ELSE IF f = "created_at" THEN 0
        ELSE obj[f]]

\* for field, value in update_dict.items(): setattr(engineer, field, value)
SetAttrs(obj, update_dict) ==
    [f \in DOMAIN obj |-> IF f \in DOMAIN update_dict THEN update_dict[f] ELSE obj[f]]

\* EngineerService.update_engineer; update_dict is
\* update_data.dict(exclude_unset=True): the fields the caller set
update_engineer(s, engineer_id, update_dict) ==
    LET g == get_engineer(s, engineer_id)
    IN  IF g.exc # OK THEN g
        ELSE update([s EXCEPT !.heap[g.ret] = SetAttrs(@, update_dict)], g.ret)

\* delete_engineer without the lookup
delete_engineer_unchecked(s, engineer_id) == delete(s, engineer_id)

\* EngineerService.delete_engineer
delete_engineer(s, engineer_id) ==
    LET g == get_engineer(s, engineer_id)
    IN  IF g.exc # OK THEN g
        ELSE delete(s, engineer_id)

\* EngineerService.add_certification
add_certification(s, engineer_id, cert_code) ==
    LET g == get_engineer(s, engineer_id)
    IN  IF g.exc # OK THEN g
        ELSE update([s EXCEPT !.heap[g.ret] = Engineer_add_certification(@, cert_code)],
                    g.ret)

\* find_engineers_for_platform without the availability test
find_engineers_for_platform_any(s, platform) ==
    LET all_engineers == get_all(s)
    IN  SelectSeq(all_engineers,
                  LAMBDA r : can_work_on_platform(s.heap[r], platform))

\* EngineerService.find_engineers_for_platform: the list returned
find_engineers_for_platform(s, platform) ==
    LET all_engineers == get_all(s)
    IN  SelectSeq(all_engineers,
                  LAMBDA r : /\ s.heap[r].is_available = TRUE
                             /\ can_work_on_platform(s.heap[r], platform))

\* [eng.calculate_monthly_revenue() for eng in refs]
Revenues(s, refs) ==
    [i \in 1..Len(refs) |-> calculate_monthly_revenue(s.heap[refs[i]], HoursPerMonth)]

\* a report that totals every stored record, available or not
get_revenue_report_all(s) ==
    LET engineers_ == get_all(s)
        available == SelectSeq(engineers_, LAMBDA r : s.heap[r].is_available = TRUE)
        total_monthly == Sum(Revenues(s, engineers_))
        level_engineers(level) ==
            SelectSeq(engineers_,
                      LAMBDA r : /\ s.heap[r].certification_level = level
                                 /\ s.heap[r].is_available = TRUE)
        by_level ==
            [level \in {CertificationLevel[i] : i \in 1..Len(CertificationLevel)} |->
                [count |-> Len(level_engineers(level)),
                 monthly_revenue |-> Sum(Revenues(s, level_engineers(level)))]]
    IN  [total_available_engineers |-> Len(available),
         total_monthly_revenue_potential |-> total_monthly,
         by_certification_level |-> by_level]

\* EngineerService.get_revenue_report: the dict returned
get_revenue_report(s) ==
    LET engineers_ == get_all(s)
        available == SelectSeq(engineers_, LAMBDA r : s.heap[r].is_available = TRUE)
        total_monthly == Sum(Revenues(s, available))
        level_engineers(level) ==
            SelectSeq(engineers_,
                      LAMBDA r : /\ s.heap[r].certification_level = level
                                 /\ s.heap[r].is_available = TRUE)
        by_level ==
            [level \in {CertificationLevel[i] : i \in 1..Len(CertificationLevel)} |->
                [count |-> Len(level_engineers(level)),
                 monthly_revenue |-> Sum(Revenues(s, level_engineers(level)))]]
    IN  [total_available_engineers |-> Len(available),
         total_monthly_revenue_potential |-> total_monthly,
         by_certification_level |-> by_level]

\* ------------------------------------------------------------ call inputs
\* Engineer(...) as a caller of the repository writes it
CallerEngineer(id, email, certifications, is_available) ==
    [id |-> id, name |-> "Ann", email |-> email, specialty |-> "DevOps",
     hourly_rate |-> 100, certification_level |-> "mid",
     certifications |-> certifications, is_available |-> is_available,
     created_at |-> <<>>]

CallerEngineers ==
    UNION {{CallerEngineer(0, e, <<>>, TRUE),
            CallerEngineer(1, e, Some(<<"AZ-104", "AZ-104">>), TRUE),
            CallerEngineer(0, e, Some(<<>>), FALSE)} : e \in Emails}
    \cup {CallerEngineer(9, "c@x.com", <<>>, TRUE)}

\* EngineerCreate values that passed validation
EngineerCreates ==
    {[name |-> "Ann", email |-> e, specialty |-> "DevOps",
      hourly_rate |-> rl[1], certification_level |-> rl[2]] :
        e \in Emails, rl \in {<<90, "junior">>, <<120, "senior">>}}

\* EngineerUpdate.dict(exclude_unset=True): the fields the request set,
\* a field set to null included
UpdateDicts ==
    {<<>>}
    \cup {"name" :> v : v \in {"Bea", None}}
    \cup {"email" :> v : v \in Emails}
    \cup {"specialty" :> "K8s"}
    \cup {"is_available" :> v : v \in BOOLEAN}
    \cup {("hourly_rate" :> 120) @@ ("certification_level" :> "expert")}
    \cup {"certification_level" :> None}

Refs == 1..Len(heap)

\* ------------------------------------------------------------------ actions
Cur == [heap |-> heap, engineers |-> engineers, next_id |-> next_id]

NoArg == [none |-> TRUE]

\* The call op(id / ref / arg) ended as r.
Commit(r, op, id, ref, arg) ==
    /\ ops < MaxOps
    /\ ops' = ops + 1
    /\ heap' = r.heap
    /\ engineers' = r.engineers
    /\ next_id' = r.next_id
    /\ UNCHANGED <<tasks, running>>
    /\ issued' = IF op \in {"create", "create_engineer"} /\ r.exc = OK
                 THEN Append(issued, r.heap[r.ret].id)
                 ELSE issued
    /\ last' = [op |-> op, id |-> id, ref |-> ref, arg |-> arg,
                exc |-> r.exc, ret |-> r.ret, flag |-> r.flag,
                list |-> <<>>, report |-> NoArg, status_code |-> 0]

\* The read-only call op(id / arg) returned the object ret, the list or the
\* report; these calls assign nothing.
CommitRead(op, id, arg, ret, list, report) ==
    /\ ops < MaxOps
    /\ ops' = ops + 1
    /\ UNCHANGED <<heap, engineers, next_id, issued, tasks, running>>
    /\ last' = [op |-> op, id |-> id, ref |-> NoRef, arg |-> arg,
                exc |-> OK, ret |-> ret, flag |-> FALSE,
                list |-> list, report |-> report, status_code |-> 0]

\* A caller constructs an Engineer and hands it to repository.create.
StoreCreateNew ==
    \E a \in CallerEngineers :
        LET n == New(Cur, a)
        IN  Commit(create(n, n.ret), "create", 0, n.ret, NoArg)

\* A caller hands an Engineer it still holds to repository.create.
StoreCreate ==
    \E e \in Refs : Commit(create(Cur, e), "create", 0, e, NoArg)

\* A caller constructs an Engineer and hands it to repository.update.
StoreUpdateNew ==
    \E a \in CallerEngineers :
        LET n == New(Cur, a)
        IN  Commit(update(n, n.ret), "update", 0, n.ret, NoArg)

\* A caller hands an Engineer it holds to repository.update.
StoreUpdate ==
    \E e \in Refs : Commit(update(Cur, e), "update", 0, e, NoArg)

StoreDelete ==
    \E i \in AskedIds : Commit(delete(Cur, i), "delete", i, NoRef, NoArg)

CreateEngineer ==
    \E d \in EngineerCreates :
        Commit(create_engineer(Cur, d), "create_engineer", 0, Len(heap) + 1, NoArg)

GetEngineer ==
    \E i \in AskedIds : Commit(get_engineer(Cur, i), "get_engineer", i, NoRef, NoArg)

UpdateEngineer ==
    \E i \in AskedIds, u \in UpdateDicts :
        Commit(update_engineer(Cur, i, u), "update_engineer", i, NoRef, u)

DeleteEngineer ==
    \E i \in AskedIds :
        Commit(delete_engineer(Cur, i), "delete_engineer", i, NoRef, NoArg)

AddCertification ==
    \E i \in AskedIds, c \in CertCodes :
        Commit(add_certification(Cur, i, c), "add_certification", i, NoRef,
               [cert_code |-> c])

StoreGetById ==
    \E i \in AskedIds :
        CommitRead("get_by_id", i, NoArg, get_by_id(Cur, i), <<>>, NoArg)

StoreGetByEmail ==
    \E e \in Emails :
        CommitRead("get_by_email", 0, [email |-> e], get_by_email(Cur, e), <<>>, NoArg)

StoreGetAll ==
    CommitRead("get_all", 0, NoArg, NoRef, get_all(Cur), NoArg)

StoreFindAvailable ==
    CommitRead("find_available", 0, NoArg, NoRef, find_available(Cur), NoArg)

FindEngineersForPlatform ==
    \E p \in {CloudPlatform[i] : i \in 1..Len(CloudPlatform)} :
        CommitRead("find_engineers_for_platform", 0, [platform |-> p], NoRef,
                   find_engineers_for_platform(Cur, p), NoArg)

GetRevenueReport ==
    CommitRead("get_revenue_report", 0, NoArg, NoRef, <<>>, get_revenue_report(Cur))

Init ==
    /\ ops = 0
    /\ heap = <<>>
    /\ engineers = <<>>
    /\ next_id = 1
    /\ issued = <<>>
    /\ last = [op |-> "init", id |-> 0, ref |-> NoRef, arg |-> NoArg,
               exc |-> OK, ret |-> NoRef, flag |-> FALSE,
               list |-> <<>>, report |-> NoArg, status_code |-> 0]
    /\ tasks = <<>>
    /\ running = 0

Next ==
    \/ StoreCreateNew
    \/ StoreCreate
    \/ StoreUpdateNew
    \/ StoreUpdate
    \/ StoreDelete
    \/ CreateEngineer
    \/ GetEngineer
    \/ UpdateEngineer
    \/ DeleteEngineer
    \/ AddCertification
    \/ StoreGetById
    \/ StoreGetByEmail
    \/ StoreGetAll
    \/ StoreFindAvailable
    \/ FindEngineersForPlatform
    \/ GetRevenueReport

Spec == Init /\ [][Next]_vars

\* --------------------------------------------------------- the event loop
\* The service's coroutines as asyncio runs them: a task runs statement by
\* statement; at an await the event loop gets control only if the awaited
\* coroutine suspends.

\* get_by_email as a query of a database: its await suspends the task
Suspends_query(coroutine) == coroutine = "get_by_email"

\* get_engineer as a query of a database: its await suspends the task
Suspends_lookup(coroutine) == coroutine = "get_engineer"

\* Does awaiting this coroutine give control to the event loop?  No
\* coroutine of the repository or of the service awaits a future, sleeps or
\* does I/O: each runs to its return inside the awaiting task.
Suspends(coroutine) == FALSE

\* create after the lookup, without `self._next_id += 1`
create_store_same_id(s, engineer, existing) ==
    IF existing # NoRef
    THEN Raise(s, EngineerAlreadyExistsError)
    ELSE Result([s.heap EXCEPT ![engineer].id = s.next_id],
                DictSet(s.engineers, s.next_id, engineer),
                s.next_id,
                OK, engineer, FALSE)

\* InMemoryEngineerRepository.create after `existing = await
\* self.get_by_email(engineer.email)`
create_store(s, engineer, existing) ==
    IF existing # NoRef
    THEN Raise(s, EngineerAlreadyExistsError)
    ELSE Result([s.heap EXCEPT ![engineer].id = s.next_id],
                DictSet(s.engineers, s.next_id, engineer),
                s.next_id + 1,
                OK, engineer, FALSE)

\* The service calls that arrive as tasks.
Calls ==
    {[op |-> "create_engineer", id |-> 0, arg |-> d] : d \in EngineerCreates}
    \cup {[op |-> "update_engineer", id |-> i, arg |-> u] :
            i \in AskedIds, u \in UpdateDicts}
    \cup {[op |-> "add_certification", id |-> i, arg |-> [cert_code |-> c]] :
            i \in AskedIds, c \in CertCodes}
    \cup {[op |-> "delete_engineer", id |-> i, arg |-> NoArg] : i \in AskedIds}

\* the tasks that have not returned
Pending == {t \in 1..Len(tasks) : tasks[t].pc # "done"}

\* A request arrives: its coroutine becomes a task.  engineer and existing
\* are the coroutine's local variables; before (the fetched record as it
\* was when fetched) and pending (the tasks unfinished at arrival) are
\* history.
Arrive ==
    /\ Len(tasks) < MaxTasks
    /\ \E call \in Calls :
          tasks' = Append(tasks,
                          [op |-> call.op, id |-> call.id, arg |-> call.arg,
                           pc |-> "start", engineer |-> NoRef,
                           existing |-> NoRef, before |-> NoArg,
                           exc |-> OK, ret |-> NoRef, flag |-> FALSE,
                           pending |-> Pending])
    /\ UNCHANGED <<ops, heap, engineers, next_id, issued, last, running>>

\* The event loop, idle, runs a task that is ready.
Schedule ==
    /\ running = 0
    /\ \E t \in Pending : running' = t
    /\ UNCHANGED <<ops, heap, engineers, next_id, issued, last, tasks>>

\* The running task goes on from pc to next_pc with the repository as r
\* leaves it; at the await of coroutine the event loop gets control if the
\* coroutine suspends, and when the task returns or raises.
Step(r, next_pc, locals, coroutine) ==
    /\ heap' = r.heap
    /\ engineers' = r.engineers
    /\ next_id' = r.next_id
    /\ tasks' = [tasks EXCEPT ![running] =
                    locals @@ [pc |-> next_pc] @@ tasks[running]]
    /\ running' = IF next_pc = "done" \/ Suspends(coroutine) THEN 0 ELSE running
    /\ UNCHANGED <<ops, issued, last>>

At(op_set, pc) ==
    /\ running # 0
    /\ tasks[running].op \in op_set
    /\ tasks[running].pc = pc

\* create_engineer: engineer = Engineer(id=0, ...); return await
\* self.repository.create(engineer)
CreateEngineer_construct ==
    /\ At({"create_engineer"}, "start")
    /\ LET d == tasks[running].arg
           n == New(Cur, [id |-> 0, name |-> d.name, email |-> d.email,
                          specialty |-> d.specialty,
                          hourly_rate |-> d.hourly_rate,
                          certification_level |-> d.certification_level,
                          certifications |-> <<>>, is_available |-> TRUE,
                          created_at |-> <<>>])
       IN  Step(n, "get_by_email", [engineer |-> n.ret], "create")

\* create: existing = await self.get_by_email(engineer.email)
Create_get_by_email ==
    /\ At({"create_engineer"}, "get_by_email")
    /\ LET existing == get_by_email(Cur, heap[tasks[running].engineer].email)
       IN  Step(Cur, "store", [existing |-> existing], "get_by_email")

\* create: if existing: raise ...; the assignments; return engineer
Create_store ==
    /\ At({"create_engineer"}, "store")
    /\ LET r == create_store(Cur, tasks[running].engineer, tasks[running].existing)
       IN  Step(r, "done", [exc |-> r.exc, ret |-> r.ret], "create")

\* update_engineer, add_certification:
\* engineer = await self.get_engineer(engineer_id)
Service_get_engineer ==
    /\ At({"update_engineer", "add_certification"}, "start")
    /\ LET g == get_engineer(Cur, tasks[running].id)
       IN  IF g.exc # OK
           THEN Step(g, "done", [exc |-> g.exc], "get_engineer")
           ELSE Step(g, "mutate", [engineer |-> g.ret, before |-> heap[g.ret]],
                     "get_engineer")

\* update_engineer: for field, value in update_dict.items(): setattr(...)
UpdateEngineer_setattr ==
    /\ At({"update_engineer"}, "mutate")
    /\ LET e == tasks[running].engineer
       IN  Step([Cur EXCEPT !.heap[e] = SetAttrs(@, tasks[running].arg)],
                "update", <<>>, "setattr")

\* add_certification: engineer.add_certification(cert_data.cert_code)
AddCertification_add ==
    /\ At({"add_certification"}, "mutate")
    /\ LET e == tasks[running].engineer
       IN  Step([Cur EXCEPT !.heap[e] =
                    Engineer_add_certification(@, tasks[running].arg.cert_code)],
                "update", <<>>, "add_certification")

\* update_engineer, add_certification:
\* return await self.repository.update(engineer)
Service_update ==
    /\ At({"update_engineer", "add_certification"}, "update")
    /\ LET r == update(Cur, tasks[running].engineer)
       IN  Step(r, "done", [exc |-> r.exc, ret |-> r.ret], "update")

\* delete_engineer: await self.get_engineer(engineer_id)
DeleteEngineer_get_engineer ==
    /\ At({"delete_engineer"}, "start")
    /\ LET g == get_engineer(Cur, tasks[running].id)
       IN  IF g.exc # OK
           THEN Step(g, "done", [exc |-> g.exc], "get_engineer")
           ELSE Step(g, "delete", <<>>, "get_engineer")

\* delete_engineer: return await self.repository.delete(engineer_id)
DeleteEngineer_delete ==
    /\ At({"delete_engineer"}, "delete")
    /\ LET r == delete(Cur, tasks[running].id)
       IN  Step(r, "done", [exc |-> r.exc, flag |-> r.flag], "delete")

NextTasks ==
    \/ Arrive
    \/ Schedule
    \/ CreateEngineer_construct
    \/ Create_get_by_email
    \/ Create_store
    \/ Service_get_engineer
    \/ UpdateEngineer_setattr
    \/ AddCertification_add
    \/ Service_update
    \/ DeleteEngineer_get_engineer
    \/ DeleteEngineer_delete

SpecTasks == Init /\ [][NextTasks]_vars

\* ------------------------------------------------------------ the HTTP layer
\* The endpoints of the FastAPI application: each awaits one service call
\* and turns the exception it catches into an HTTPException.

\* response_model=EngineerResponse: the validation of engineer.to_dict()
EngineerResponse_valid(obj) == obj.name \notin {None, ""}

\* The status an endpoint answers with when its service call ended as r:
\* the exception the endpoint catches gives caught_status, any other one
\* and a record that fails the response model give 500.
StatusOf(r, caught, caught_status, success_status, returns_engineer) ==
    IF r.exc = caught THEN caught_status
    ELSE IF r.exc # OK THEN 500
    ELSE IF returns_engineer /\ ~EngineerResponse_valid(r.heap[r.ret]) THEN 500
    ELSE success_status

HttpResponse(r, status_code) == [r |-> r, status_code |-> status_code]

\* POST /engineers
http_create_engineer(s, engineer_data) ==
    LET r == create_engineer(s, engineer_data)
    IN  HttpResponse(r, StatusOf(r, EngineerAlreadyExistsError, 409, 201, TRUE))

\* GET /engineers/{engineer_id}
http_get_engineer(s, engineer_id) ==
    LET r == get_engineer(s, engineer_id)
    IN  HttpResponse(r, StatusOf(r, EngineerNotFoundError, 404, 200, TRUE))

\* PATCH /engineers/{engineer_id}
http_update_engineer(s, engineer_id, update_dict) ==
    LET r == update_engineer(s, engineer_id, update_dict)
    IN  HttpResponse(r, StatusOf(r, EngineerNotFoundError, 404, 200, TRUE))

\* DELETE that answers 204 whether or not the id was stored
http_delete_engineer_idempotent(s, engineer_id) ==
    HttpResponse(delete(s, engineer_id), 204)

\* DELETE /engineers/{engineer_id}
http_delete_engineer(s, engineer_id) ==
    LET r == delete_engineer(s, engineer_id)
    IN  HttpResponse(r, StatusOf(r, EngineerNotFoundError, 404, 204, FALSE))

\* POST /engineers/{engineer_id}/certifications
http_add_certification(s, engineer_id, cert_code) ==
    LET r == add_certification(s, engineer_id, cert_code)
    IN  HttpResponse(r, StatusOf(r, EngineerNotFoundError, 404, 200, TRUE))

\* The request ended with the response h.
Respond(h, request, id, arg) ==
    /\ ops < MaxOps
    /\ ops' = ops + 1
    /\ heap' = h.r.heap
    /\ engineers' = h.r.engineers
    /\ next_id' = h.r.next_id
    /\ UNCHANGED <<tasks, running>>
    /\ issued' = IF request = "POST /engineers" /\ h.r.exc = OK
                 THEN Append(issued, h.r.heap[h.r.ret].id)
                 ELSE issued
    /\ last' = [op |-> request, id |-> id, ref |-> NoRef, arg |-> arg,
                exc |-> h.r.exc, ret |-> h.r.ret, flag |-> h.r.flag,
                list |-> <<>>, report |-> NoArg, status_code |-> h.status_code]

HttpCreateEngineer ==
    \E d \in EngineerCreates :
        Respond(http_create_engineer(Cur, d), "POST /engineers", 0, d)

HttpGetEngineer ==
    \E i \in AskedIds :
        Respond(http_get_engineer(Cur, i), "GET /engineers/{engineer_id}", i, NoArg)

HttpUpdateEngineer ==
    \E i \in AskedIds, u \in UpdateDicts :
        Respond(http_update_engineer(Cur, i, u), "PATCH /engineers/{engineer_id}", i, u)

HttpDeleteEngineer ==
    \E i \in AskedIds :
        Respond(http_delete_engineer(Cur, i), "DELETE /engineers/{engineer_id}", i, NoArg)

HttpAddCertification ==
    \E i \in AskedIds, c \in CertCodes :
        Respond(http_add_certification(Cur, i, c),
                "POST /engineers/{engineer_id}/certifications", i, [cert_code |-> c])

NextHttp ==
    \/ HttpCreateEngineer
    \/ HttpGetEngineer
    \/ HttpUpdateEngineer
    \/ HttpDeleteEngineer
    \/ HttpAddCertification

SpecHttp == Init /\ [][NextHttp]_vars

\* ------------------------------------------------------- request validation
\* pydantic validates the fields of a model in the order of declaration;
\* a validator gets the fields validated before its own in `values`.

\* class EngineerBase: the fields in declaration order
EngineerBase_fields ==
    <<"name", "email", "specialty", "hourly_rate", "certification_level">>

\* EngineerBase.validate_rate: TRUE when it raises ValueError
validate_rate(v, values) ==
    LET level == IF "certification_level" \in DOMAIN values
                 THEN values["certification_level"] ELSE None
    IN  IF level = "junior" /\ v > 100 THEN TRUE
        ELSE IF level = "senior" /\ v < 100 THEN TRUE
        ELSE FALSE

\* The Field(...) constraints and the validator of one field: TRUE when the
\* value is accepted.
field_valid(field, v, values) ==
    CASE field = "name" -> v # ""
      [] field = "hourly_rate" -> v > 0 /\ v <= 500 /\ ~validate_rate(v, values)
      [] field = "certification_level" -> Contains(CertificationLevel, v)
      [] OTHER -> TRUE

\* The fields from the i-th on: a field that is accepted joins values, one
\* that is not makes the model invalid.
RECURSIVE validate_fields(_, _, _)
validate_fields(raw, i, values) ==
    IF i > Len(EngineerBase_fields) THEN TRUE
    ELSE LET field == EngineerBase_fields[i]
         IN  IF field_valid(field, raw[field], values)
             THEN validate_fields(raw, i + 1, (field :> raw[field]) @@ values)
             ELSE /\ validate_fields(raw, i + 1, values)
                  /\ FALSE

\* EngineerCreate(**body): TRUE when the body is accepted
EngineerCreate_valid(raw) == validate_fields(raw, 1, <<>>)

\* FastAPI's exception for a body that fails validation
RequestValidationError == "RequestValidationError"

\* Request bodies of POST /engineers.
RawCreates ==
    {[name |-> n, email |-> e, specialty |-> "DevOps",
      hourly_rate |-> h, certification_level |-> l] :
        n \in {"Ann", ""}, e \in {"a@x.com"}, h \in {0, 90, 150},
        l \in {"junior", "senior", "principal"}}

\* POST /engineers with a body as it arrives: FastAPI answers 422 when the
\* body is no EngineerCreate, and calls the endpoint otherwise.
HttpPostEngineers ==
    \E raw \in RawCreates :
        IF EngineerCreate_valid(raw)
        THEN Respond(http_create_engineer(Cur, raw), "POST /engineers", 0, raw)
        ELSE Respond(HttpResponse(Raise(Cur, RequestValidationError), 422),
                     "POST /engineers", 0, raw)

NextValidation ==
    \/ HttpPostEngineers
    \/ HttpDeleteEngineer

SpecValidation == Init /\ [][NextValidation]_vars

\* ------------------------------------------------------------------ startup

\* lifespan: the sample engineers that startup constructs
sample_engineers ==
    <<[id |-> 0, name |-> "Willem van Heemstra", email |-> "willem@rockstars.com",
       specialty |-> "DevSecOps", hourly_rate |-> 116,
       certification_level |-> "senior",
       certifications |-> Some(<<"AZ-104", "AZ-700">>), is_available |-> TRUE,
       created_at |-> <<>>],
      [id |-> 0, name |-> "Alice Chen", email |-> "alice@rockstars.com",
       specialty |-> "Cloud Architecture", hourly_rate |-> 135,
       certification_level |-> "expert",
       certifications |-> Some(<<"AZ-305", "AWS-SAA", "GCP-PCA">>),
       is_available |-> TRUE, created_at |-> <<>>],
      [id |-> 0, name |-> "Bob Johnson", email |-> "bob@rockstars.com",
       specialty |-> "Kubernetes", hourly_rate |-> 90,
       certification_level |-> "mid",
       certifications |-> Some(<<"CKAD", "CKA">>), is_available |-> FALSE,
       created_at |-> <<>>]>>

\* the list sample_engineers = [Engineer(...), ...]: the objects are
\* constructed one after the other, before any is created
RECURSIVE construct_samples(_, _)
construct_samples(s, i) ==
    IF i > Len(sample_engineers) THEN s
    ELSE LET n == New(s, sample_engineers[i])
         IN  construct_samples([heap |-> n.heap, engineers |-> n.engineers,
                                next_id |-> n.next_id], i + 1)

\* a startup that stops at the first sample that exists already
RECURSIVE create_samples_stop(_, _, _)
create_samples_stop(s, refs, i) ==
    IF i > Len(refs) THEN Return(s, NoRef)
    ELSE LET r == create(s, refs[i])
         IN  IF r.exc # OK THEN r
             ELSE create_samples_stop([heap |-> r.heap, engineers |-> r.engineers,
                                       next_id |-> r.next_id], refs, i + 1)

\* for engineer in sample_engineers: try: await repo.create(engineer)
\* except EngineerAlreadyExistsError: pass.  refs are the constructed
\* objects; the result's exc is OK: create raises nothing else.
RECURSIVE create_samples(_, _, _)
create_samples(s, refs, i) ==
    IF i > Len(refs) THEN Return(s, NoRef)
    ELSE LET r == create(s, refs[i])
         IN  create_samples([heap |-> r.heap, engineers |-> r.engineers,
                             next_id |-> r.next_id], refs, i + 1)

\* lifespan up to its yield
lifespan_startup(s) ==
    LET c == construct_samples(s, 1)
        refs == [i \in 1..Len(sample_engineers) |-> Len(s.heap) + i]
    IN  create_samples(c, refs, 1)

\* The application starts: lifespan runs on the repository of the
\* RepositoryManager singleton, which lives as long as the process.
Startup ==
    LET r == lifespan_startup(Cur)
    IN  /\ ops < MaxOps
        /\ ops' = ops + 1
        /\ heap' = r.heap
        /\ engineers' = r.engineers
        /\ next_id' = r.next_id
        /\ issued' = issued \o [k \in 1..(r.next_id - next_id) |-> next_id + k - 1]
        /\ last' = [op |-> "startup", id |-> 0, ref |-> NoRef, arg |-> NoArg,
                    exc |-> r.exc, ret |-> NoRef, flag |-> FALSE,
                    list |-> <<>>, report |-> NoArg, status_code |-> 0]
        /\ UNCHANGED <<tasks, running>>

\* The application with its startup: started, used through its endpoints,
\* and started again in the same process.
NextStartup ==
    \/ Startup
    \/ HttpCreateEngineer
    \/ HttpUpdateEngineer
    \/ HttpDeleteEngineer

SpecStartup == Init /\ [][NextStartup]_vars

\* The state in which the started application takes its first request.
InitStarted ==
    LET r == lifespan_startup([heap |-> <<>>, engineers |-> <<>>, next_id |-> 1])
    IN  /\ ops = 0
        /\ heap = r.heap
        /\ engineers = r.engineers
        /\ next_id = r.next_id
        /\ issued = [k \in 1..(r.next_id - 1) |-> k]
        /\ last = [op |-> "startup", id |-> 0, ref |-> NoRef, arg |-> NoArg,
                   exc |-> r.exc, ret |-> NoRef, flag |-> FALSE,
                   list |-> <<>>, report |-> NoArg, status_code |-> 0]
        /\ tasks = <<>>
        /\ running = 0

\* The started application's service coroutines under the event loop.
SpecStartedTasks == InitStarted /\ [][NextTasks]_vars

\* ------------------------------------------------------------- observations
Stored == {engineers[i].ref : i \in 1..Len(engineers)}

StoredKeys == {engineers[i].key : i \in 1..Len(engineers)}

Range(seq) == {seq[i] : i \in 1..Len(seq)}

CreateOps == {"create", "create_engineer"}

\* ---------------------------------------------------------------------- C1
\* C1: in every reachable state no two stored records have the same email.
C1_UniqueEmails ==
    \A i, j \in 1..Len(engineers) :
        i # j => heap[engineers[i].ref].email # heap[engineers[j].ref].email

\* ---------------------------------------------------------------------- C2
\* C2: every successful create assigns an id that no earlier create of this
\* repository assigned, deleted records' ids included: the ids handed out
\* are pairwise different, and every key in use was handed out by a create.
C2_IdsNeverReused ==
    /\ \A i, j \in 1..Len(issued) : i # j => issued[i] # issued[j]
    /\ StoredKeys \subseteq Range(issued)

\* A create succeeded after a record had been deleted.
C2_Witness ==
    /\ last.op \in CreateOps
    /\ last.exc = OK
    /\ Len(issued) >= 2
    /\ \E k \in Range(issued) : k \notin StoredKeys

\* ---------------------------------------------------------------------- C3
\* C3: from the empty repository, when every call so far was a successful
\* create (so the emails were pairwise distinct), the k-th create returned
\* the record it was given with id k, whatever id the caller had put into
\* it, and get_all() holds exactly the N records created, the k-th being
\* the k-th object constructed, with ids 1..N in that order.
C3_SequentialIds ==
    (ops = Len(issued) /\ ops > 0) =>
        /\ last.ret = last.ref
        /\ heap[last.ret].id = ops
        /\ issued = [k \in 1..ops |-> k]
        /\ get_all(Cur) = [k \in 1..ops |-> k]
        /\ \A k \in 1..ops : heap[get_all(Cur)[k]].id = k

\* Three creates with distinct emails, the last with a caller-supplied id 9.
C3_Witness ==
    /\ ops = 3
    /\ Len(issued) = 3
    /\ heap[3].email = "c@x.com"
    /\ heap[3].id = 3

\* ---------------------------------------------------------------------- C4
\* C4: a create (repository.create or create_engineer) of a record whose
\* email is the email of a stored record raises EngineerAlreadyExistsError
\* and leaves the repository as it was: the same entries under the same
\* keys, every stored record's fields as before, the id counter as before,
\* and the rejected record under no key it was not under before.
C4_DuplicateCreate ==
    [][(/\ last'.op \in CreateOps
        /\ \E r \in Stored : heap[r].email = heap'[last'.ref].email)
       => /\ last'.exc = EngineerAlreadyExistsError
          /\ engineers' = engineers
          /\ next_id' = next_id
          /\ issued' = issued
          /\ \A r \in Stored : heap'[r] = heap[r]
          /\ (last'.ref \notin Stored => last'.ref \notin Stored')]_vars

\* A create was rejected as a duplicate while a record was stored.
C4_Witness ==
    /\ last.op \in CreateOps
    /\ last.exc = EngineerAlreadyExistsError
    /\ last.ref \notin Stored
    /\ \E r \in Stored : heap[r].email = heap[last.ref].email

\* ---------------------------------------------------------------------- C5
\* C5: a successful update_engineer(id, partial_fields) sets exactly the
\* fields present in partial_fields to the given values on the record stored
\* under id, leaves that record's other fields as they were, leaves every
\* other stored record as it was, and changes neither the dict nor the
\* id counter.
C5_PartialUpdate ==
    [][(last'.op = "update_engineer" /\ last'.exc = OK)
       => LET r == last'.ret
              u == last'.arg
          IN  /\ r = get_by_id(Cur, last'.id)
              /\ \A f \in DOMAIN heap[r] :
                    heap'[r][f] = IF f \in DOMAIN u THEN u[f] ELSE heap[r][f]
              /\ \A q \in Stored \ {r} : heap'[q] = heap[q]
              /\ engineers' = engineers
              /\ next_id' = next_id]_vars

\* One of two stored records was renamed; its rate and its certifications,
\* given at construction, are still there.
C5_Witness ==
    /\ last.op = "update_engineer"
    /\ last.exc = OK
    /\ last.arg = ("name" :> "Bea")
    /\ Len(engineers) = 2
    /\ heap[last.ret].name = "Bea"
    /\ heap[last.ret].certifications = <<"AZ-104", "AZ-104">>

\* ---------------------------------------------------------------------- C6
\* C6: after a successful add_certification(id, code) the record holds the
\* code exactly once, and calling add_certification(id, code) again leaves
\* the record, and the whole repository, as it is.
C6_AddCertificationOnce ==
    (last.op = "add_certification" /\ last.exc = OK) =>
        LET code == last.arg.cert_code
            again == add_certification(Cur, last.id, code)
        IN  /\ Count(heap[last.ret].certifications, code) = 1
            /\ again.exc = OK
            /\ again.heap = heap
            /\ again.engineers = engineers

\* ---------------------------------------------------------------------- C7
\* C7: in every reachable state the certifications of every stored record
\* hold no code more than once.
C7_DistinctCertifications ==
    \A r \in Stored :
        \A i, j \in 1..Len(heap[r].certifications) :
            i # j => heap[r].certifications[i] # heap[r].certifications[j]

\* ---------------------------------------------------------------------- C8
\* C8: after delete(id) or delete_engineer(id) of a stored record,
\* get_by_id(id) is None, the record is in neither get_all() nor
\* find_available(), the other records are stored under their keys in the
\* order they were, and no record's fields changed.
C8_DeleteRemoves ==
    [][(last'.op \in {"delete", "delete_engineer"} /\ last'.id \in StoredKeys)
       => LET r == get_by_id(Cur, last'.id)
          IN  /\ get_by_id(Cur', last'.id) = NoRef
              /\ r \notin Range(get_all(Cur'))
              /\ r \notin Range(find_available(Cur'))
              /\ get_all(Cur') = SelectSeq(get_all(Cur), LAMBDA q : q # r)
              /\ \A k \in StoredKeys \ {last'.id} :
                    get_by_id(Cur', k) = get_by_id(Cur, k)
              /\ heap' = heap]_vars

\* The first of two stored records was deleted, the second is still there.
C8_Witness ==
    /\ last.op \in {"delete", "delete_engineer"}
    /\ last.id = 1
    /\ last.flag = TRUE
    /\ StoredKeys = {2}

\* ---------------------------------------------------------------------- C9
\* C9: delete_engineer(id) raises EngineerNotFoundError, and so returns
\* nothing, when id is not a stored key, and leaves the repository as it
\* was; when id is a stored key it removes the record and returns True.
C9_DeleteEngineer ==
    [][(last'.op = "delete_engineer")
       => IF last'.id \in StoredKeys
          THEN /\ last'.exc = OK
               /\ last'.flag = TRUE
               /\ StoredKeys' = StoredKeys \ {last'.id}
          ELSE /\ last'.exc = EngineerNotFoundError
               /\ last'.flag = FALSE
               /\ engineers' = engineers]_vars

\* delete_engineer of an id that a create had handed out and that has been
\* deleted since raised EngineerNotFoundError.
C9_Witness ==
    /\ last.op = "delete_engineer"
    /\ last.exc = EngineerNotFoundError
    /\ last.id \in Range(issued)
    /\ last.id \notin StoredKeys

\* --------------------------------------------------------------------- C10
\* C10: for an id that is not a stored key, get_engineer, update_engineer
\* and add_certification raise EngineerNotFoundError and leave the objects,
\* the dict and the id counter as they were; for a stored key get_engineer
\* returns the record stored under it, whose id is that key.
C10_NotFound ==
    [][(last'.op \in {"get_engineer", "update_engineer", "add_certification"})
       => IF last'.id \notin StoredKeys
          THEN /\ last'.exc = EngineerNotFoundError
               /\ heap' = heap
               /\ engineers' = engineers
               /\ next_id' = next_id
          ELSE last'.op = "get_engineer"
               => /\ last'.exc = OK
                  /\ last'.ret \in Stored
                  /\ \E i \in 1..Len(engineers) :
                        engineers[i] = [key |-> last'.id, ref |-> last'.ret]
                  /\ heap'[last'.ret].id = last'.id
                  /\ heap' = heap
                  /\ engineers' = engineers]_vars

\* update_engineer of an absent id was refused while a record was stored.
C10_Witness ==
    /\ last.op = "update_engineer"
    /\ last.exc = EngineerNotFoundError
    /\ last.arg = ("email" :> "a@x.com")
    /\ Len(engineers) = 1

\* --------------------------------------------------------------------- C11
\* C11: repository.update(record) raises EngineerNotFoundError and leaves
\* dict, objects and id counter as they were when record.id is not a stored
\* key; otherwise it returns the record, the record is what is stored under
\* record.id, every other entry, every object's fields and the id counter
\* are as before.
C11_StoreUpdate ==
    [][(last'.op = "update")
       => LET e == last'.ref
              k == heap'[e].id
          IN  /\ \A r \in Refs : heap'[r] = heap[r]
              /\ next_id' = next_id
              /\ IF k \notin StoredKeys
                 THEN /\ last'.exc = EngineerNotFoundError
                      /\ engineers' = engineers
                 ELSE /\ last'.exc = OK
                      /\ last'.ret = e
                      /\ get_by_id(Cur', k) = e
                      /\ Len(engineers') = Len(engineers)
                      /\ \A i \in 1..Len(engineers) :
                            engineers'[i] = IF engineers[i].key = k
                                            THEN [key |-> k, ref |-> e]
                                            ELSE engineers[i]]_vars

\* A newly constructed record with id 1 replaced the first of two stored
\* records.
C11_Witness ==
    /\ last.op = "update"
    /\ last.exc = OK
    /\ last.ref = 3
    /\ engineers = <<[key |-> 1, ref |-> 3], [key |-> 2, ref |-> 2]>>

\* --------------------------------------------------------------------- C12
\* C12 as stated: get_by_id, get_by_email, get_all, update and
\* find_available leave the stored collection and the id counter as they
\* were; only create and delete change the collection.
C12_OnlyCreateAndDeleteMutate ==
    [][(last'.op \in {"get_by_id", "get_by_email", "get_all", "update",
                      "find_available"})
       => /\ engineers' = engineers
          /\ next_id' = next_id]_vars

StoreReads == {"get_by_id", "get_by_email", "get_all", "find_available"}

\* C12 as amended: the lookups change nothing; update changes neither the
\* keys, nor their order, nor the id counter, nor any object's fields, and
\* at most the entry under record.id; the set of keys changes only in a
\* create or a delete (the service's included) and the id counter only in
\* a create.
C12_MutationFrame ==
    [][/\ (last'.op \in StoreReads)
            => (engineers' = engineers /\ next_id' = next_id /\ heap' = heap)
       /\ (last'.op = "update")
            => /\ [i \in 1..Len(engineers') |-> engineers'[i].key]
                    = [i \in 1..Len(engineers) |-> engineers[i].key]
               /\ \A i \in 1..Len(engineers) :
                    engineers[i].key # heap'[last'.ref].id
                        => engineers'[i] = engineers[i]
               /\ next_id' = next_id
               /\ \A r \in Refs : heap'[r] = heap[r]
       /\ (StoredKeys' # StoredKeys)
            => last'.op \in CreateOps \cup {"delete", "delete_engineer"}
       /\ (next_id' # next_id) => last'.op \in CreateOps]_vars

\* repository.update put a newly constructed record in the place of the
\* only stored one.
C12_Witness ==
    /\ last.op = "update"
    /\ last.exc = OK
    /\ engineers = <<[key |-> 1, ref |-> 2]>>
    /\ next_id = 2

\* --------------------------------------------------------------------- C13
\* C13: while update_engineer or add_certification has fetched its record
\* and has not yet called repository.update, and after a call that raised,
\* the record that get_by_id(id) returns has the field values it had when
\* the service fetched it.
C13_StoredUntouchedBeforeUpdate ==
    \A t \in 1..Len(tasks) :
        (/\ tasks[t].op \in {"update_engineer", "add_certification"}
         /\ tasks[t].engineer # NoRef
         /\ tasks[t].pc \in {"mutate", "update"} \/ tasks[t].exc # OK)
        => /\ get_by_id(Cur, tasks[t].id) # NoRef
           /\ heap[get_by_id(Cur, tasks[t].id)] = tasks[t].before

\* --------------------------------------------------------------------- C14
ServiceOps ==
    {"create_engineer", "get_engineer", "update_engineer", "delete_engineer",
     "add_certification", "find_engineers_for_platform", "get_revenue_report"}

\* C14: no EngineerService call changes the id or the created_at of an
\* Engineer object that exists when the call starts, and the record stored
\* under a key after the call has the id and the created_at that the record
\* stored under that key had before it.
C14_IdAndCreatedAtFixed ==
    [][(last'.op \in ServiceOps)
       => /\ \A r \in Refs :
                /\ heap'[r].id = heap[r].id
                /\ heap'[r].created_at = heap[r].created_at
          /\ \A k \in StoredKeys :
                DictHas(engineers', k)
                => /\ heap'[DictGet(engineers', k)].id = heap[DictGet(engineers, k)].id
                   /\ heap'[DictGet(engineers', k)].created_at
                        = heap[DictGet(engineers, k)].created_at]_vars

\* A record was created and then updated with a two-field update; it still
\* has the id the counter gave it and the construction time.
C14_Witness ==
    /\ last.op = "update_engineer"
    /\ last.exc = OK
    /\ DOMAIN last.arg = {"hourly_rate", "certification_level"}
    /\ heap[last.ret].hourly_rate = 120
    /\ heap[last.ret].id = last.id
    /\ heap[last.ret].created_at = last.ret

\* --------------------------------------------------------------------- C15
\* the sum of f[x] over the finite set S
RECURSIVE SumOver(_, _)
SumOver(S, f) ==
    IF S = {} THEN 0
    ELSE LET x == CHOOSE y \in S : TRUE
         IN  f[x] + SumOver(S \ {x}, f)

\* the dict positions of the available records, of one level or of any
AvailableAt(level) ==
    {i \in 1..Len(engineers) :
        /\ heap[engineers[i].ref].is_available = TRUE
        /\ level \in {"any", heap[engineers[i].ref].certification_level}}

C16_StoreDelete ==
    [][(last'.op = "delete")
       => /\ last'.exc = OK
          /\ last'.flag = DictHas(engineers, last'.id)
          /\ last'.flag => /\ ~DictHas(engineers', last'.id)
                           /\ StoredKeys' = StoredKeys \ {last'.id}
          /\ ~last'.flag => engineers' = engineers
          /\ next_id' = next_id
          /\ heap' = heap]_vars

\* delete(2) returned False while a record was stored under key 1, which is
\* still there, and the next id is still 2.
C16_Witness ==
    /\ last.op = "delete"
    /\ last.id = 2
    /\ last.flag = FALSE
    /\ StoredKeys = {1}
    /\ next_id = 2

\* --------------------------------------------------------------------- C17
\* C17: in every reachable state get_by_id(i) is the stored record whose id
\* is i when there is one and None otherwise, get_by_email(e) is a stored
\* record whose email is e when there is one and None otherwise, a lookup
\* that ended did not raise, and every stored record is the one that
\* get_by_id finds under its id and that get_by_email finds under its email.
C17_Lookups ==
    /\ \A i \in AskedIds \cup StoredKeys :
          LET r == get_by_id(Cur, i)
          IN  IF \E q \in Stored : heap[q].id = i
              THEN r \in Stored /\ heap[r].id = i
              ELSE r = NoRef
    /\ \A e \in Emails \cup {"c@x.com"} :
          LET r == get_by_email(Cur, e)
          IN  IF \E q \in Stored : heap[q].email = e
              THEN r \in Stored /\ heap[r].email = e
              ELSE r = NoRef
    /\ last.op \in {"get_by_id", "get_by_email"} => last.exc = OK
    /\ \A r \in Stored :
          /\ get_by_id(Cur, heap[r].id) = r
          /\ get_by_email(Cur, heap[r].email) = r

\* The same lookups fail in no state where the stored emails are unique.
C17_LookupsOfUniqueEmails == C1_UniqueEmails => C17_Lookups

\* --------------------------------------------------------------------- C18
\* C18: find_available() returns exactly the stored records whose
\* is_available is True when it is called, each once, in dict order: a
\* record created unavailable or made unavailable by update_engineer is not
\* in the list, one made available again is.
C18_FindAvailable ==
    (last.op = "find_available")
    => /\ Range(last.list) = {r \in Stored : heap[r].is_available = TRUE}
       /\ last.list = SelectSeq(DictValues(engineers),
                                LAMBDA r : heap[r].is_available = TRUE)
       /\ \A i, j \in 1..Len(last.list) : i # j => last.list[i] # last.list[j]

\* find_available() returned nothing while the one stored record was
\* unavailable: created unavailable, or made so by update_engineer.
C18_Witness ==
    /\ last.op = "find_available"
    /\ last.list = <<>>
    /\ Len(engineers) = 1
    /\ heap[engineers[1].ref].is_available = FALSE

\* update_engineer(id, {is_available: True}) ended and the record it
\* returned is in what find_available() returns now.
C18_WitnessAvailable ==
    /\ last.op = "update_engineer"
    /\ last.exc = OK
    /\ DOMAIN last.arg = {"is_available"}
    /\ last.arg["is_available"] = TRUE
    /\ last.ret \in Range(find_available(Cur))

\* --------------------------------------------------------------------- C19
\* code begins with the prefix the claim gives for the platform
CertifiedFor(platform, code) ==
    LET p == CASE platform = "azure" -> <<"A", "Z", "-">>
               [] platform = "aws" -> <<"A", "W", "S", "-">>
               [] platform = "gcp" -> <<"G", "C", "P", "-">>
        c == Chars(code)
    IN  /\ Len(c) >= Len(p)
        /\ \A i \in 1..Len(p) : c[i] = p[i]

\* C19: find_engineers_for_platform(platform) returns exactly the stored
\* records that are available and have at least one certification code
\* beginning with the platform's prefix (azure "AZ-", aws "AWS-",
\* gcp "GCP-"), each once; a record without certifications or an unavailable
\* one is in the list of no platform.
C19_FindEngineersForPlatform ==
    (last.op = "find_engineers_for_platform")
    => /\ Range(last.list) =
            {r \in Stored :
                /\ heap[r].is_available = TRUE
                /\ \E i \in 1..Len(heap[r].certifications) :
                      CertifiedFor(last.arg.platform, heap[r].certifications[i])}
       /\ \A i, j \in 1..Len(last.list) : i # j => last.list[i] # last.list[j]
       /\ \A r \in Range(last.list) :
            heap[r].certifications # <<>> /\ heap[r].is_available = TRUE

\* Of two available records, one with AZ-104 and one without
\* certifications, the search for azure returned the first only.
C19_Witness ==
    /\ last.op = "find_engineers_for_platform"
    /\ last.arg.platform = "azure"
    /\ Len(last.list) = 1
    /\ Contains(heap[last.list[1]].certifications, "AZ-104")
    /\ \E r \in Stored \ Range(last.list) :
          /\ heap[r].is_available = TRUE
          /\ heap[r].certifications = <<>>

\* The one stored record has AZ-104 and is unavailable: the search for azure
\* returned nothing.
C19_WitnessUnavailable ==
    /\ last.op = "find_engineers_for_platform"
    /\ last.arg.platform = "azure"
    /\ last.list = <<>>
    /\ \E r \in Stored :
          /\ heap[r].is_available = FALSE
          /\ Contains(heap[r].certifications, "AZ-104")

\* --------------------------------------------------------------------- C20
\* the tasks that could have set or removed an email a create checks for
ChangesEmail(t) ==
    \/ /\ tasks[t].op = "update_engineer"
       /\ "email" \in DOMAIN tasks[t].arg
    \/ tasks[t].op = "delete_engineer"

\* two create_engineer tasks with one email, t2 arrived before t1 returned
Concurrent(t1, t2) ==
    /\ t1 < t2
    /\ tasks[t1].op = "create_engineer"
    /\ tasks[t2].op = "create_engineer"
    /\ tasks[t1].arg.email = tasks[t2].arg.email
    /\ t1 \in tasks[t2].pending

\* C20: of two create calls with the same email that are tasks of the event
\* loop at the same time, at most one returns a record, and at no moment
\* while they run or after are two records with that email stored (calls
\* that set a record's email by update_engineer or delete a record aside).
C20_ConcurrentCreates ==
    \A t1, t2 \in 1..Len(tasks) :
        (Concurrent(t1, t2) /\ \A t \in 1..Len(tasks) : ~ChangesEmail(t))
        => /\ ~(/\ tasks[t1].pc = "done" /\ tasks[t1].exc = OK
                /\ tasks[t2].pc = "done" /\ tasks[t2].exc = OK)
           /\ Cardinality({i \in 1..Len(engineers) :
                  heap[engineers[i].ref].email = tasks[t1].arg.email}) <= 1

\* Two creates with one email were tasks at the same time; both returned,
\* one with the record and one with EngineerAlreadyExistsError.
C20_Witness ==
    /\ Len(tasks) = 2
    /\ Concurrent(1, 2)
    /\ tasks[1].pc = "done"
    /\ tasks[2].pc = "done"
    /\ {tasks[1].exc, tasks[2].exc} = {OK, EngineerAlreadyExistsError}
    /\ Len(engineers) = 1

\* The second create, arrived while the first was pending, ran first and
\* returned the record; the first raised.
C20_WitnessSecondWins ==
    /\ Len(tasks) = 2
    /\ Concurrent(1, 2)
    /\ tasks[1].exc = EngineerAlreadyExistsError
    /\ tasks[2].pc = "done"
    /\ tasks[2].exc = OK

\* --------------------------------------------------------------------- C21
\* the create_engineer tasks that returned a record
Created == {t \in 1..Len(tasks) :
               /\ tasks[t].op = "create_engineer"
               /\ tasks[t].pc = "done"
               /\ tasks[t].exc = OK}

\* two create_engineer tasks with different emails, t2 arrived before t1
\* returned
ConcurrentOther(t1, t2) ==
    /\ t1 < t2
    /\ tasks[t1].op = "create_engineer"
    /\ tasks[t2].op = "create_engineer"
    /\ tasks[t1].arg.email # tasks[t2].arg.email
    /\ t1 \in tasks[t2].pending

\* C21: two create calls with different emails that are tasks of the event
\* loop at the same time and have both returned (no third call having
\* stored an email or deleted a record) both returned a record; the two
\* records have different ids, each is stored under its id, and the counter
\* is 1 plus the number of creates that returned a record, so that the two
\* moved it by two.
C21_ConcurrentIds ==
    \A t1, t2 \in 1..Len(tasks) :
        (/\ ConcurrentOther(t1, t2)
         /\ tasks[t1].pc = "done"
         /\ tasks[t2].pc = "done"
         /\ \A t \in 1..Len(tasks) :
               /\ ~ChangesEmail(t)
               /\ t \notin {t1, t2} => tasks[t].op # "create_engineer")
        => /\ {t1, t2} \subseteq Created
           /\ heap[tasks[t1].ret].id # heap[tasks[t2].ret].id
           /\ get_by_id(Cur, heap[tasks[t1].ret].id) = tasks[t1].ret
           /\ get_by_id(Cur, heap[tasks[t2].ret].id) = tasks[t2].ret
           /\ next_id = 1 + Cardinality(Created)

\* Two creates with different emails were tasks at the same time; the one
\* that arrived second ran first and has id 1, the other has id 2, and the
\* counter is 3.
C21_Witness ==
    /\ Len(tasks) = 2
    /\ ConcurrentOther(1, 2)
    /\ Created = {1, 2}
    /\ heap[tasks[2].ret].id = 1
    /\ heap[tasks[1].ret].id = 2
    /\ next_id = 3

\* --------------------------------------------------------------------- C22
\* C22: every stored record has a name that is a non-empty text, an
\* hourly_rate above 0, a certification_level that is one of the four
\* levels and a boolean is_available, in every state that calls of the
\* service with validated EngineerCreate and EngineerUpdate inputs reach.
C22_StoredFieldsValid ==
    \A r \in Stored :
        /\ heap[r].name \notin {None, ""}
        /\ heap[r].hourly_rate > 0
        /\ heap[r].certification_level \in Range(CertificationLevel)
        /\ heap[r].is_available \in BOOLEAN

\* --------------------------------------------------------------------- C23
ByIdRequests ==
    {"GET /engineers/{engineer_id}", "PATCH /engineers/{engineer_id}",
     "DELETE /engineers/{engineer_id}",
     "POST /engineers/{engineer_id}/certifications"}

\* C23: a GET, PATCH or DELETE on /engineers/{id} and a POST on
\* /engineers/{id}/certifications for an id that is not stored answer 404,
\* a POST on /engineers with an email that a stored record has answers 409,
\* and these requests leave the dict, the counter and every stored record
\* as they were.
C23_HttpErrors ==
    [][LET unchanged == /\ engineers' = engineers
                        /\ next_id' = next_id
                        /\ \A r \in Refs : heap'[r] = heap[r]
       IN  /\ (last'.op \in ByIdRequests /\ last'.id \notin StoredKeys)
              => (last'.status_code = 404 /\ unchanged)
           /\ (/\ last'.op = "POST /engineers"
               /\ \E r \in Stored : heap[r].email = last'.arg.email)
              => (last'.status_code = 409 /\ unchanged)]_vars

\* DELETE /engineers/2 answered 404 while record 1 was stored.
C23_Witness ==
    /\ last.op = "DELETE /engineers/{engineer_id}"
    /\ last.id = 2
    /\ last.status_code = 404
    /\ StoredKeys = {1}

\* POST /engineers answered 409 for an email that record 1 has.
C23_WitnessConflict ==
    /\ last.op = "POST /engineers"
    /\ last.status_code = 409
    /\ StoredKeys = {1}
    /\ heap[DictGet(engineers, 1)].email = last.arg.email

\* --------------------------------------------------------------------- C24
\* C24: in every reachable state next_id is greater than every key of the
\* dict and than the id of every stored record, and equals 1 plus the
\* number of creates that succeeded so far; no call makes it smaller, and
\* only a create that succeeds changes it.
C24_Counter ==
    [][/\ \A k \in StoredKeys : k < next_id
       /\ \A r \in Stored : heap[r].id < next_id
       /\ next_id = 1 + Len(issued)
       /\ \A k \in StoredKeys' : k < next_id'
       /\ \A r \in Stored' : heap'[r].id < next_id'
       /\ next_id' = 1 + Len(issued')
       /\ next_id' >= next_id
       /\ next_id' # next_id => (last'.op \in CreateOps /\ last'.exc = OK)]_vars

\* Two creates succeeded and the second record was deleted: the counter is
\* still 3.
C24_Witness ==
    /\ last.op \in {"delete", "delete_engineer"}
    /\ last.id = 2
    /\ last.flag = TRUE
    /\ Len(issued) = 2
    /\ StoredKeys = {1}
    /\ next_id = 3

\* --------------------------------------------------------------------- C25
\* C25: in every reachable state the record stored under key k has id k,
\* and no Engineer object is stored under two keys.
C25_KeyIsId ==
    /\ \A i \in 1..Len(engineers) : heap[engineers[i].ref].id = engineers[i].key
    /\ \A i, j \in 1..Len(engineers) :
          i # j => /\ engineers[i].ref # engineers[j].ref
                   /\ engineers[i].key # engineers[j].key

\* An object was created, deleted and handed to create again: it is stored
\* once, under its new id 2.
C25_Witness ==
    /\ last.op = "create"
    /\ last.exc = OK
    /\ Len(heap) = 1
    /\ issued = <<1, 2>>
    /\ engineers = <<[key |-> 2, ref |-> 1]>>
    /\ heap[1].id = 2

\* --------------------------------------------------------------------- C26
\* C26: a create with email e raises EngineerAlreadyExistsError and stores
\* nothing while a stored record has email e; when no stored record has it,
\* records with email e that were deleted notwithstanding, the create
\* succeeds and the id it assigns is greater than every id handed out
\* before, the deleted records' ids included.
C26_EmailFreedByDelete ==
    [][(last'.op \in CreateOps)
       => LET e == heap'[last'.ref].email
          IN  IF \E r \in Stored : heap[r].email = e
              THEN /\ last'.exc = EngineerAlreadyExistsError
                   /\ engineers' = engineers
              ELSE /\ last'.exc = OK
                   /\ DictGet(engineers', heap'[last'.ref].id) = last'.ref
                   /\ \A k \in Range(issued) : heap'[last'.ref].id > k]_vars

\* Record 1 was created and deleted; a create with its email succeeded and
\* the new record has id 2.
C26_Witness ==
    /\ last.op \in CreateOps
    /\ last.exc = OK
    /\ issued = <<1, 2>>
    /\ StoredKeys = {2}
    /\ Len(heap) = 2
    /\ heap[1].id = 1
    /\ heap[1].email = heap[2].email
    /\ heap[2].id = 2

\* --------------------------------------------------------------------- C27
\* C27: in every report that get_revenue_report() returns, the counts of
\* the four levels add up to total_available_engineers, their monthly
\* revenues add up to total_monthly_revenue_potential, and
\* total_available_engineers is the number of records that find_available()
\* returns in the same state.
C27_ReportAddsUp ==
    (last.op = "get_revenue_report")
    => LET rep == last.report
           by_level == rep.by_certification_level
           count == [l \in DOMAIN by_level |-> by_level[l].count]
           revenue == [l \in DOMAIN by_level |-> by_level[l].monthly_revenue]
       IN  /\ SumOver(DOMAIN by_level, count) = rep.total_available_engineers
           /\ SumOver(DOMAIN by_level, revenue) = rep.total_monthly_revenue_potential
           /\ rep.total_available_engineers = Len(find_available(Cur))

\* The same report adds up in every state where the stored records' fields
\* are valid.
C27_ReportOfValidRecords == C22_StoredFieldsValid => C27_ReportAddsUp

\* --------------------------------------------------------------------- C28
\* the delete_engineer tasks for one id
DeletesOf(id) ==
    {t \in 1..Len(tasks) : tasks[t].op = "delete_engineer" /\ tasks[t].id = id}

\* C28: of two delete_engineer(id) calls that are tasks of the event loop
\* at the same time, for an id stored when the application started (no
\* third delete of that id being there), when both have ended exactly one
\* returned True and the other raised EngineerNotFoundError, none returned
\* False, and the record is gone while the other records are still stored.
C28_ConcurrentDeletes ==
    \A t1, t2 \in 1..Len(tasks) :
        (/\ t1 < t2
         /\ DeletesOf(tasks[t1].id) = {t1, t2}
         /\ t1 \in tasks[t2].pending
         /\ tasks[t1].id \in Range(issued)
         /\ tasks[t1].pc = "done"
         /\ tasks[t2].pc = "done")
        => /\ \E w \in {t1, t2} :
                /\ tasks[w].exc = OK
                /\ tasks[w].flag = TRUE
                /\ \A l \in {t1, t2} \ {w} : tasks[l].exc = EngineerNotFoundError
           /\ tasks[t1].id \notin StoredKeys
           /\ \A k \in Range(issued) \ StoredKeys :
                \E t \in DeletesOf(k) : tasks[t].exc = OK /\ tasks[t].flag = TRUE

\* Two delete_engineer(1) calls were tasks at the same time; the one that
\* arrived second ran first and returned True, the first raised
\* EngineerNotFoundError; records 2 and 3 are stored.
C28_Witness ==
    /\ Len(tasks) = 2
    /\ DeletesOf(1) = {1, 2}
    /\ 1 \in tasks[2].pending
    /\ tasks[1].pc = "done"
    /\ tasks[1].exc = EngineerNotFoundError
    /\ tasks[2].pc = "done"
    /\ tasks[2].exc = OK
    /\ tasks[2].flag = TRUE
    /\ StoredKeys = {2, 3}

\* --------------------------------------------------------------------- C29
\* the stored records with email e, in state s
StoredWithEmail(s, e) ==
    {i \in 1..Len(s.engineers) : s.heap[s.engineers[i].ref].email = e}

\* C29: startup never raises; for each of the three sample engineers, if a
\* stored record has its email startup stores no record with that email,
\* and otherwise it stores one new record with the sample's fields; the
\* records stored before stay as they are.  From the new repository it
\* stores the three samples under ids 1, 2, 3, and a startup that follows a
\* startup changes neither the dict nor the counter.
C29_StartupIdempotent ==
    [][(last'.op = "startup")
       => /\ last'.exc = OK
          /\ \A i \in 1..Len(sample_engineers) :
                LET e == sample_engineers[i].email
                    new == {r \in Stored' \ Stored : heap'[r].email = e}
                IN  IF StoredWithEmail(Cur, e) # {}
                    THEN new = {}
                    ELSE /\ Cardinality(new) = 1
                         /\ \A r \in new :
                               /\ heap'[r].name = sample_engineers[i].name
                               /\ heap'[r].certifications
                                    = sample_engineers[i].certifications[1]
                               /\ DictGet(engineers', heap'[r].id) = r
          /\ \A k \in StoredKeys : DictGet(engineers', k) = DictGet(engineers, k)
          /\ \A r \in Refs : r \in Stored => heap'[r] = heap[r]
          /\ ops = 0 => /\ StoredKeys' = {1, 2, 3}
                        /\ \A k \in 1..3 :
                              heap'[DictGet(engineers', k)].email
                                  = sample_engineers[k].email
          /\ last.op = "startup" => /\ engineers' = engineers
                                    /\ next_id' = next_id]_vars

\* Startup ran twice in a row on the new repository: the three samples are
\* stored under 1, 2, 3, the counter is 4, and the three objects of the
\* second run are stored nowhere.
C29_Witness ==
    /\ ops = 2
    /\ last.op = "startup"
    /\ issued = <<1, 2, 3>>
    /\ engineers = <<[key |-> 1, ref |-> 1], [key |-> 2, ref |-> 2],
                     [key |-> 3, ref |-> 3]>>
    /\ next_id = 4
    /\ Len(heap) = 6

\* Startup ran again after record 1 was deleted: Willem is stored again,
\* under id 4.
C29_WitnessAfterDelete ==
    /\ last.op = "startup"
    /\ StoredKeys = {2, 3, 4}
    /\ heap[DictGet(engineers, 4)].email = sample_engineers[1].email

\* --------------------------------------------------------------------- C30
\* C30: no stored record has level junior with an hourly_rate above 100 or
\* level senior with an hourly_rate below 100, when records are stored only
\* by POST /engineers, whose bodies pass the validation of EngineerCreate;
\* a body with such a rate and level is answered 422.
C30_RateAlignsWithLevel ==
    /\ \A r \in Stored :
          /\ ~(heap[r].certification_level = "junior" /\ heap[r].hourly_rate > 100)
          /\ ~(heap[r].certification_level = "senior" /\ heap[r].hourly_rate < 100)
    /\ (/\ last.op = "POST /engineers"
        /\ \/ last.arg.certification_level = "junior" /\ last.arg.hourly_rate > 100
           \/ last.arg.certification_level = "senior" /\ last.arg.hourly_rate < 100)
       => last.status_code = 422

====
